---- MODULE Spec2Model ----
(***************************************************************************)
(* A model of convolve.c: the time-domain convolution reverb.  One run of  *)
(* main is a path through the stages of createOutputFile; pc is the        *)
(* position in that function.                                              *)
(*                                                                         *)
(* Numbers.  short and int values are integers.  A float is held as an     *)
(* exact fraction [num, den, sub] standing for num/den - sub * 0.000001    *)
(* (den = 0 stands for the result of a division by zero: NaN when num = 0, *)
(* otherwise an infinity of the sign of num).  The input samples of the    *)
(* model are multiples of 4096, so every raw value (a sample / 32768, a    *)
(* product of two, a sum of a few products) is a multiple of 1/64 that a   *)
(* single-precision float holds exactly; the rounding of the later         *)
(* division is not modelled.                                               *)
(*                                                                         *)
(* Files.  An input file is its 36-byte leading block (a record) and tail, *)
(* the bytes that follow it; a position counts the tail bytes consumed.    *)
(***************************************************************************)
EXTENDS Integers, Sequences, FiniteSets, TLC

(* ------------------------------ bounds --------------------------------- *)
\* longest run of bytes between the leading block and the data chunk
MaxPre == 5
\* most samples in a signal whose sample values vary
MaxLen == 2
\* most samples in a signal of equal samples (progress reporting)
LongLen == 10
\* scan passes at end-of-stream that the model follows
MaxEofPasses == 2

(* --------------------------- small helpers ----------------------------- *)
Abs(i) == IF i < 0 THEN -i ELSE i
Sign(i) == IF i < 0 THEN -1 ELSE IF i > 0 THEN 1 ELSE 0
Max(a, b) == IF a > b THEN a ELSE b
Min(a, b) == IF a < b THEN a ELSE b

RECURSIVE GCD(_, _)
GCD(a, b) == IF b = 0 THEN a ELSE GCD(b, a % b)

RECURSIVE SeqsUpTo(_, _)
\* all sequences over S of length 0..k
SeqsUpTo(S, k) ==
    IF k = 0 THEN {<<>>}
    ELSE LET shorter == SeqsUpTo(S, k - 1)
         IN  shorter \cup {Append(s, e) : s \in {t \in shorter : Len(t) = k - 1}, e \in S}

RECURSIVE Concat(_)
\* the concatenation of a sequence of sequences
Concat(ss) == IF ss = <<>> THEN <<>> ELSE Head(ss) \o Concat(Tail(ss))

RECURSIVE Choices(_)
\* all sequences s with s[i] \in sets[i]
Choices(sets) ==
    IF sets = <<>> THEN {<<>>}
    ELSE {<<e>> \o r : e \in Head(sets), r \in Choices(Tail(sets))}

Repeat(v, k) == [i \in 1..k |-> v]

(* ------------------------------ floats --------------------------------- *)
\* num/den in lowest terms, den > 0
Frac(n, d) ==
    LET g == GCD(Abs(n), Abs(d))
        s == IF d < 0 THEN -1 ELSE 1
    IN  [num |-> s * (n \div g), den |-> s * (d \div g), sub |-> 0]

FZero == [num |-> 0, den |-> 1, sub |-> 0]
IsFinite(a) == a.den # 0

\* comparisons of two finite floats that carry no subtracted epsilon
FLt(a, b) == a.num * b.den < b.num * a.den
FGt(a, b) == FLt(b, a)

\* fabs
FAbs(a) == [a EXCEPT !.num = Abs(a.num)]

FMul(a, b) ==
    LET g1 == GCD(Abs(a.num), b.den)
        g2 == GCD(Abs(b.num), a.den)
    IN  Frac((a.num \div g1) * (b.num \div g2), (a.den \div g2) * (b.den \div g1))

FAdd(a, b) ==
    LET g == GCD(a.den, b.den)
    IN  Frac(a.num * (b.den \div g) + b.num * (a.den \div g), (a.den \div g) * b.den)

\* a / b; b = 0 gives NaN (0/0) or an infinity
FDiv(a, b) ==
    IF b.num = 0 THEN [num |-> Sign(a.num), den |-> 0, sub |-> 0]
    ELSE LET g1 == GCD(Abs(a.num), Abs(b.num))
             g2 == GCD(a.den, b.den)
             an == IF g1 = 0 THEN 0 ELSE a.num \div g1
             bn == IF g1 = 0 THEN 1 ELSE b.num \div g1
         IN  Frac(an * (b.den \div g2), (a.den \div g2) * bn)

\* the literals of the program
Epsilon == Frac(1, 1000000)
HighestStart == Frac(-9999999, 1)
LowestStart == Frac(9999999, 1)

\* a > 0.999999, for a float that carries no subtracted epsilon:
\* num * 10^6 > 999999 * den  <=>  den - num < den / 10^6,
\* written so that no product leaves the 32-bit range
GtThreshold(a) ==
    IF a.den = 0 THEN a.num > 0
    ELSE a.den - a.num <= (a.den - 1) \div 1000000

(* ------------------------------ codec ---------------------------------- *)
\* floatSamples[i] = (samples[i] * 1.0) / 32768.0
createFloatSamplesFromIntegerSamples(samples) ==
    [i \in 1..Len(samples) |-> Frac(samples[i], 32768)]

RECURSIVE MulPow2Div(_, _, _)
\* <<floor(n * 2^k / d), the remainder>> for n >= 0, d > 0, by doubling
MulPow2Div(n, d, k) ==
    IF k = 0 THEN <<n \div d, n % d>>
    ELSE LET p == MulPow2Div(n, d, k - 1)
         IN  <<2 * p[1] + (IF 2 * p[2] >= d THEN 1 ELSE 0), (2 * p[2]) % d>>

\* ceil(c * d / m) for c, d >= 0, m > 0
CeilMulDiv(c, d, m) == c * (d \div m) + ((c * (d % m) + m - 1) \div m)

\* floatSamples[i] * 32768.0 truncated toward zero, as an unbounded integer
\* (32768 * 0.000001 = 512/15625)
TruncScaled(a) ==
    LET qr == MulPow2Div(Abs(a.num), a.den, 15)
        Q == qr[1]
        r == qr[2]
    IN  IF a.sub = 0 THEN Sign(a.num) * Q
        ELSE IF a.num >= 0
             THEN IF r >= CeilMulDiv(512, a.den, 15625) THEN Q ELSE Max(Q - 1, 0)
             ELSE IF r < CeilMulDiv(15113, a.den, 15625) THEN -Q ELSE -(Q + 1)

FitsShort(i) == -32768 <= i /\ i <= 32767
Wrap16(i) == ((i + 32768) % 65536) - 32768

\* the values (short)(floatSamples[i] * 32768.0) can take: the truncated
\* value when a short holds it; otherwise the conversion is undefined
ShortOutcomes(a) ==
    IF ~IsFinite(a) THEN {0, -32768}
    ELSE IF FitsShort(TruncScaled(a)) THEN {TruncScaled(a)}
    ELSE {Wrap16(TruncScaled(a)), 0}

\* the arrays createShortIntegerSamplesFromFloatSamples can produce
createShortIntegerSamplesFromFloatSamples(floatSamples) ==
    Choices([i \in 1..Len(floatSamples) |-> ShortOutcomes(floatSamples[i])])

(* --------------------------- renormalizer ------------------------------ *)
RECURSIVE LargestLoop(_, _, _, _)
\* the loop of largestSampleIn from index p on: <<highest, lowest>>
LargestLoop(y, p, highest, lowest) ==
    IF p > Len(y) THEN <<highest, lowest>>
    ELSE IF FGt(y[p], highest) THEN LargestLoop(y, p + 1, y[p], lowest)
    ELSE IF FLt(y[p], lowest) THEN LargestLoop(y, p + 1, highest, y[p])
    ELSE LargestLoop(y, p + 1, highest, lowest)

largestSampleIn(y) ==
    LET hl == LargestLoop(y, 1, HighestStart, LowestStart)
        highest == hl[1]
        lowest == hl[2]
    IN  IF FGt(highest, FAbs(lowest)) THEN FAdd(highest, Epsilon) ELSE FAbs(lowest)

\* one sample of the scaling loop: y[p] /= largest, then the correction
ScaleOne(v, largest) ==
    LET q == FDiv(v, largest)
    IN  IF GtThreshold(q) /\ IsFinite(q) THEN [q EXCEPT !.sub = 1] ELSE q

scaleValuesToRangeOfPlusMinus1(y) ==
    LET largest == largestSampleIn(y)
    IN  [p \in 1..Len(y) |-> ScaleOne(y[p], largest)]

(* ------------------------------- files --------------------------------- *)
\* "data" as bytes
DataTag == <<100, 97, 116, 97>>
\* "RIFF", "WAVE", "fmt "
RiffTag == <<82, 73, 70, 70>>
WaveTag == <<87, 65, 86, 69>>
FmtTag == <<102, 109, 116, 32>>

\* the bytes the metadata of the model is made of: 'a', 'd', 't'
Alphabet == {97, 100, 116}
\* what a byte of the never-initialised FileData may hold
UninitBytes == {0} \cup Alphabet
\* the sample values of the model (multiples of 4096)
SampleValues == {-32768, -4096, 0, 4096, 16384}
SampleRates == {22050, 44100}

Int32Bytes(v) == <<v % 256, (v \div 256) % 256, (v \div 65536) % 256, (v \div 16777216) % 256>>
ShortBytes(s) == LET u == (s + 65536) % 65536 IN <<u % 256, u \div 256>>
\* a little-endian int and short, signed
LE32(b) == b[1] + 256 * b[2] + 65536 * b[3] + 16777216 * (IF b[4] >= 128 THEN b[4] - 256 ELSE b[4])
LE16(b) == b[1] + 256 * (IF b[2] >= 128 THEN b[2] - 256 ELSE b[2])

DataChunk(samples) ==
    DataTag \o Int32Bytes(2 * Len(samples))
            \o Concat([i \in 1..Len(samples) |-> ShortBytes(samples[i])])

\* a 16-bit mono file: subchunk1_size 16 + junk, then pre (its first junk
\* bytes are the extra bytes of the leading sub-block), then chunk
MkFile(rate, junk, pre, chunk) ==
    [lead |-> [chunk_id |-> RiffTag, chunk_size |-> 28 + Len(pre) + Len(chunk),
               format |-> WaveTag, subchunk1_id |-> FmtTag,
               subchunk1_size |-> 16 + junk, audio_format |-> 1,
               num_channels |-> 1, sample_rate |-> rate, byte_rate |-> 2 * rate,
               block_align |-> 2, bits_per_sample |-> 16],
     tail |-> pre \o chunk]

PlainFile(rate, samples) == MkFile(rate, 0, <<>>, DataChunk(samples))

\* files whose data chunk, if any, follows arbitrary bytes
ScanFiles ==
    {MkFile(44100, junk, pre, chunk) :
        junk \in {0, 2}, pre \in SeqsUpTo(Alphabet, MaxPre),
        chunk \in {<<>>, DataChunk(<<4096>>)}}

\* index of the first "data" in bytes at or after offset from (the number
\* of bytes before the tag), or -1
RECURSIVE FindTag(_, _)
FindTag(bytes, from) ==
    IF from + 4 > Len(bytes) THEN -1
    ELSE IF SubSeq(bytes, from + 1, from + 4) = DataTag THEN from
    ELSE FindTag(bytes, from + 1)

(* ------------------------------- state --------------------------------- *)
VARIABLES
    pc,                 \* position in main / createOutputFile
    sample_file, impulse_file,      \* the input files (never written)
    sample_pos, impulse_pos,        \* stream positions, in tail bytes
    header_sample, header_impulse, header_output,
    eof_passes,         \* scan passes so far in which a read hit end-of-stream
    N, M, P,
    x, h, x_float_form, h_float_form, y_float_form, y,
    heap,               \* buffer -> "unallocated" | "allocated" | "freed"
    heap_error,         \* a buffer was used, allocated or freed out of turn
    n, multiple, next10er,          \* locals of convolve
    progress,           \* the messages printed: <<multiple, n>>
    writes,             \* the indices n+m the loops of convolve wrote
    largest,            \* the divisor scaleValuesToRangeOfPlusMinus1 used
    output_file         \* what has been written to the output stream

vars == <<pc, sample_file, impulse_file, sample_pos, impulse_pos,
          header_sample, header_impulse, header_output, eof_passes, N, M, P,
          x, h, x_float_form, h_float_form, y_float_form, y, heap, heap_error,
          n, multiple, next10er, progress, writes, largest, output_file>>

Buffers == {"x", "h", "x_float_form", "h_float_form", "y_float_form", "y"}

\* a WavHeader nothing has been read into yet
BlankHeader ==
    [chunk_id |-> <<0, 0, 0, 0>>, chunk_size |-> 0, format |-> <<0, 0, 0, 0>>,
     subchunk1_id |-> <<0, 0, 0, 0>>, subchunk1_size |-> 0, audio_format |-> 0,
     num_channels |-> 0, sample_rate |-> 0, byte_rate |-> 0, block_align |-> 0,
     bits_per_sample |-> 0, subchunk2_id |-> <<0, 0, 0, 0>>, subchunk2_size |-> 0]

\* the pairs of input files of the model
InputPairs ==
    \* the primary signal's data chunk is to be located
    {<<f, PlainFile(44100, <<4096>>)>> : f \in ScanFiles}
    \* the impulse response's data chunk is to be located
    \cup {<<PlainFile(44100, <<4096>>), f>> : f \in ScanFiles}
    \* two plain files, any samples
    \cup {<<PlainFile(r, xs), PlainFile(44100, hs)>> :
            r \in SampleRates, xs \in SeqsUpTo(SampleValues, MaxLen),
            hs \in SeqsUpTo(SampleValues, MaxLen)}
    \* two plain files of equal samples, up to LongLen of them
    \cup {<<PlainFile(44100, Repeat(4096, a)), PlainFile(44100, Repeat(4096, b))>> :
            a \in 1..LongLen, b \in 1..LongLen}

Init ==
    /\ pc = "start"
    /\ \E pair \in InputPairs : sample_file = pair[1] /\ impulse_file = pair[2]
    /\ sample_pos = 0 /\ impulse_pos = 0
    /\ header_sample = BlankHeader /\ header_impulse = BlankHeader
    /\ header_output = BlankHeader
    /\ eof_passes = 0
    /\ N = 0 /\ M = 0 /\ P = 0
    /\ x = <<>> /\ h = <<>> /\ x_float_form = <<>> /\ h_float_form = <<>>
    /\ y_float_form = <<>> /\ y = <<>>
    /\ heap = [b \in Buffers |-> "unallocated"]
    /\ heap_error = FALSE
    /\ n = 0 /\ multiple = 0 /\ next10er = 0
    /\ progress = <<>> /\ writes = {}
    /\ largest = FZero
    /\ output_file = <<>>

(* --------------------------- chunk locator ----------------------------- *)
\* the bytes one fread of k bytes at pos gets (fewer at end-of-stream)
ReadBytes(tail, pos, k) == SubSeq(tail, pos + 1, Min(pos + k, Len(tail)))
\* the position after it
AfterRead(tail, pos, k) == IF pos >= Len(tail) THEN pos ELSE Min(pos + k, Len(tail))
\* a buffer after got was read into its start
Overlay(old, got) == [i \in 1..Len(old) |-> IF i <= Len(got) THEN got[i] ELSE old[i]]

\* the offset skipPastNullBytesInInputFileHeadersIfPresent seeks to, from
\* the end of the leading block
skipPastNullBytesInInputFileHeadersIfPresent(hdr) ==
    IF hdr.subchunk1_size # 16 THEN hdr.subchunk1_size - 16 ELSE 0

\* readInputFileHeaders up to its call of ensureSubchunk2_idIsSetProperly,
\* for one file: the header and the stream position.  stack is what the
\* four bytes of subchunk2_id held before anything was read into them.
ReadLeadingBlock(file, stack) ==
    LET tail == file.tail
        id1 == Overlay(stack, ReadBytes(tail, 0, 4))
        size1 == IF Len(tail) >= 8 THEN LE32(SubSeq(tail, 5, 8)) ELSE 0
        pos0 == skipPastNullBytesInInputFileHeadersIfPresent(file.lead)
        id2 == Overlay(id1, ReadBytes(tail, pos0, 4))
    IN  [hdr |-> [chunk_id |-> file.lead.chunk_id, chunk_size |-> file.lead.chunk_size,
                  format |-> file.lead.format, subchunk1_id |-> file.lead.subchunk1_id,
                  subchunk1_size |-> file.lead.subchunk1_size,
                  audio_format |-> file.lead.audio_format,
                  num_channels |-> file.lead.num_channels,
                  sample_rate |-> file.lead.sample_rate,
                  byte_rate |-> file.lead.byte_rate,
                  block_align |-> file.lead.block_align,
                  bits_per_sample |-> file.lead.bits_per_sample,
                  subchunk2_id |-> id2, subchunk2_size |-> size1],
         pos |-> AfterRead(tail, pos0, 4)]

\* the stack contents that matter: the bytes of subchunk2_id the first
\* fread does not reach
StackChoices(file) ==
    Choices([i \in 1..4 |-> IF i <= Len(file.tail) THEN {0} ELSE UninitBytes])

RECURSIVE ForLoop(_, _, _, _, _)
\* the for loop of ensureSubchunk2_idIsSetProperly from index i (1..4) on;
\* a read at end-of-stream leaves subchunk2_id[i] as it was
ForLoop(id, tail, pos, i, eof) ==
    IF i > 4 THEN [id |-> id, pos |-> pos, eof |-> eof]
    ELSE LET got == pos < Len(tail)
             id2 == IF got THEN [id EXCEPT ![i] = tail[pos + 1]] ELSE id
             pos2 == IF got THEN pos + 1 ELSE pos
             eof2 == eof \/ ~got
         IN  IF id2[i] # DataTag[i] THEN [id |-> id2, pos |-> pos2, eof |-> eof2]
             ELSE ForLoop(id2, tail, pos2, i + 1, eof2)

\* lines 169-180
ReadInputFileHeaders ==
    /\ pc = "start"
    /\ \E ss \in StackChoices(sample_file), si \in StackChoices(impulse_file) :
         LET rs == ReadLeadingBlock(sample_file, ss)
             ri == ReadLeadingBlock(impulse_file, si)
         IN  /\ header_sample' = rs.hdr /\ sample_pos' = rs.pos
             /\ header_impulse' = ri.hdr /\ impulse_pos' = ri.pos
    /\ pc' = "locating"
    /\ UNCHANGED <<sample_file, impulse_file, header_output, eof_passes, N, M, P,
                   x, h, x_float_form, h_float_form, y_float_form, y, heap,
                   heap_error, n, multiple, next10er, progress, writes, largest,
                   output_file>>

\* one pass of the first while loop of ensureSubchunk2_idIsSetProperly
ScanSample ==
    /\ pc = "locating"
    /\ header_sample.subchunk2_id # DataTag
    /\ eof_passes < MaxEofPasses
    /\ LET r == ForLoop(header_sample.subchunk2_id, sample_file.tail, sample_pos, 1, FALSE)
       IN  /\ header_sample' = [header_sample EXCEPT !.subchunk2_id = r.id]
           /\ sample_pos' = r.pos
           /\ eof_passes' = IF r.eof THEN eof_passes + 1 ELSE eof_passes
    /\ UNCHANGED <<pc, sample_file, impulse_file, impulse_pos, header_impulse,
                   header_output, N, M, P, x, h, x_float_form, h_float_form,
                   y_float_form, y, heap, heap_error, n, multiple, next10er,
                   progress, writes, largest, output_file>>

\* one pass of its second while loop
ScanImpulse ==
    /\ pc = "locating"
    /\ header_sample.subchunk2_id = DataTag
    /\ header_impulse.subchunk2_id # DataTag
    /\ eof_passes < MaxEofPasses
    /\ LET r == ForLoop(header_impulse.subchunk2_id, impulse_file.tail, impulse_pos, 1, FALSE)
       IN  /\ header_impulse' = [header_impulse EXCEPT !.subchunk2_id = r.id]
           /\ impulse_pos' = r.pos
           /\ eof_passes' = IF r.eof THEN eof_passes + 1 ELSE eof_passes
    /\ UNCHANGED <<pc, sample_file, impulse_file, sample_pos, header_sample,
                   header_output, N, M, P, x, h, x_float_form, h_float_form,
                   y_float_form, y, heap, heap_error, n, multiple, next10er,
                   progress, writes, largest, output_file>>

(* ------------------------------ buffers -------------------------------- *)
Allocate(hp, bs) == [b \in Buffers |-> IF b \in bs THEN "allocated" ELSE hp[b]]
Release(hp, bs) == [b \in Buffers |-> IF b \in bs THEN "freed" ELSE hp[b]]
\* a stage that allocates news, then uses used, then frees freed, keeps to
\* the rules of malloc and free
InTurn(hp, news, used, freed) ==
    /\ \A b \in news : hp[b] = "unallocated"
    /\ \A b \in used \cup freed : Allocate(hp, news)[b] = "allocated"

\* the buffers each stage of createOutputFile frees when it has finished
FreedAfterConversion == {"x", "h"}
FreedAfterConvolve == {"x_float_form", "h_float_form"}
FreedAfterQuantize == {}
\* line 163 without free(y_float_form)
FreedAfterWriteLeak == {"y"}
FreedAfterWrite == {"y_float_form", "y"}

(* --------------------------- reading samples --------------------------- *)
\* C's integer division
TruncDiv(a, b) == Sign(a) * Sign(b) * (Abs(a) \div Abs(b))

\* the 4-byte length at pos can be read and the tail holds that many bytes
LengthReadable(file, pos) ==
    /\ pos + 4 <= Len(file.tail)
    /\ LE32(ReadBytes(file.tail, pos, 4)) >= 0
    /\ pos + 4 + LE32(ReadBytes(file.tail, pos, 4)) <= Len(file.tail)

\* count samples from pos on
SamplesAt(tail, pos, count) ==
    [i \in 1..count |-> LE16(SubSeq(tail, pos + 2 * i - 1, pos + 2 * i))]

\* lines 184-185 and 129-139: both tags found; the lengths, N and M, the
\* integer buffers and their samples.  A length that cannot be read, or
\* that promises more bytes than the file has, leaves subchunk2_size or the
\* samples indeterminate: the run is followed no further.
GetDataSamplesFromInputFiles ==
    /\ pc = "locating"
    /\ header_sample.subchunk2_id = DataTag
    /\ header_impulse.subchunk2_id = DataTag
    /\ IF LengthReadable(sample_file, sample_pos) /\ LengthReadable(impulse_file, impulse_pos)
       THEN LET ls == LE32(ReadBytes(sample_file.tail, sample_pos, 4))
                li == LE32(ReadBytes(impulse_file.tail, impulse_pos, 4))
                Ns == TruncDiv(ls, TruncDiv(header_sample.bits_per_sample, 8))
                Ms == TruncDiv(li, TruncDiv(header_impulse.bits_per_sample, 8))
            IN  /\ header_sample' = [header_sample EXCEPT !.subchunk2_size = ls]
                /\ header_impulse' = [header_impulse EXCEPT !.subchunk2_size = li]
                /\ N' = Ns /\ M' = Ms
                /\ x' = SamplesAt(sample_file.tail, sample_pos + 4, Ns)
                /\ h' = SamplesAt(impulse_file.tail, impulse_pos + 4, Ms)
                /\ sample_pos' = sample_pos + 4 + 2 * Ns
                /\ impulse_pos' = impulse_pos + 4 + 2 * Ms
                /\ heap_error' = (heap_error \/ ~InTurn(heap, {"x", "h"}, {"x", "h"}, {}))
                /\ heap' = Allocate(heap, {"x", "h"})
                /\ pc' = "read"
       ELSE /\ pc' = "undefined"
            /\ UNCHANGED <<header_sample, header_impulse, N, M, x, h, sample_pos,
                           impulse_pos, heap, heap_error>>
    /\ UNCHANGED <<sample_file, impulse_file, header_output, eof_passes, P,
                   x_float_form, h_float_form, y_float_form, y, n, multiple,
                   next10er, progress, writes, largest, output_file>>

\* lines 141-145
ConvertToFloat ==
    /\ pc = "read"
    /\ x_float_form' = createFloatSamplesFromIntegerSamples(x)
    /\ h_float_form' = createFloatSamplesFromIntegerSamples(h)
    /\ heap_error' = (heap_error \/ ~InTurn(heap, {"x_float_form", "h_float_form"},
                          {"x", "h", "x_float_form", "h_float_form"}, FreedAfterConversion))
    /\ heap' = Release(Allocate(heap, {"x_float_form", "h_float_form"}), FreedAfterConversion)
    /\ x' = IF "x" \in FreedAfterConversion THEN <<>> ELSE x
    /\ h' = IF "h" \in FreedAfterConversion THEN <<>> ELSE h
    /\ pc' = "floats"
    /\ UNCHANGED <<sample_file, impulse_file, sample_pos, impulse_pos, header_sample,
                   header_impulse, header_output, eof_passes, N, M, P, y_float_form,
                   y, n, multiple, next10er, progress, writes, largest, output_file>>

(* ------------------------- convolution engine -------------------------- *)
\* int P = N + M - 1
OutputLength(Nn, Mm) == Nn + Mm - 1

\* (int)len * (multiple / 10.0), stored in an int
Next10er(len, mult) == (len * mult) \div 10

RECURSIVE InnerFrom(_, _, _, _, _, _)
\* the inner loop from m on; acc.y is y[], acc.w the indices written.  An
\* index outside y[] is recorded and the array left alone.
InnerFrom(acc, xv, hv, nn, m, Mm) ==
    IF m >= Mm THEN acc
    ELSE LET k == nn + m
             y2 == IF k + 1 \in DOMAIN acc.y
                   THEN [acc.y EXCEPT ![k + 1] = FAdd(@, FMul(xv[nn + 1], hv[m + 1]))]
                   ELSE acc.y
         IN  InnerFrom([y |-> y2, w |-> acc.w \cup {k}], xv, hv, nn, m + 1, Mm)

\* the inner loop with the bound m < M - 1
InnerLoopStopsEarly(yv, xv, hv, nn, Mm) ==
    InnerFrom([y |-> yv, w |-> {}], xv, hv, nn, 0, Mm - 1)

\* for (int m = 0; m < M; m++) y[n+m] += x[n] * h[m];
InnerLoop(yv, xv, hv, nn, Mm) == InnerFrom([y |-> yv, w |-> {}], xv, hv, nn, 0, Mm)

\* lines 148-149 and 289-296: P, the output buffer, the progress counters,
\* the cleared y[]
ConvolveBegin ==
    /\ pc = "floats"
    /\ P' = OutputLength(N, M)
    /\ heap_error' = (heap_error \/ ~InTurn(heap, {"y_float_form"}, {"y_float_form"}, {}))
    /\ heap' = Allocate(heap, {"y_float_form"})
    /\ multiple' = 1
    /\ next10er' = Next10er(M, 1)
    /\ y_float_form' = [p \in 1..OutputLength(N, M) |-> FZero]
    /\ n' = 0
    /\ pc' = "convolving"
    /\ UNCHANGED <<sample_file, impulse_file, sample_pos, impulse_pos, header_sample,
                   header_impulse, header_output, eof_passes, N, M, x, h, x_float_form,
                   h_float_form, y, progress, writes, largest, output_file>>

\* lines 298-306: one pass of the outer loop
ConvolveOuter ==
    /\ pc = "convolving"
    /\ n < N
    /\ LET r == InnerLoop(y_float_form, x_float_form, h_float_form, n, M)
       IN  /\ y_float_form' = r.y
           /\ writes' = writes \cup r.w
    /\ heap_error' = (heap_error \/ ~InTurn(heap, {},
                          {"x_float_form", "h_float_form", "y_float_form"}, {}))
    /\ IF n = next10er
       THEN /\ progress' = Append(progress, <<multiple, n>>)
            /\ multiple' = multiple + 1
            /\ next10er' = Next10er(N, multiple + 1)
       ELSE UNCHANGED <<progress, multiple, next10er>>
    /\ n' = n + 1
    /\ UNCHANGED <<pc, sample_file, impulse_file, sample_pos, impulse_pos,
                   header_sample, header_impulse, header_output, eof_passes, N, M, P,
                   x, h, x_float_form, h_float_form, y, heap, largest, output_file>>

\* lines 307-309 and 151: the loop is over; "100%", the scaling, the float
\* inputs freed
ConvolveEnd ==
    /\ pc = "convolving"
    /\ n >= N
    /\ progress' = Append(progress, <<10, n>>)
    /\ largest' = largestSampleIn(y_float_form)
    /\ y_float_form' = scaleValuesToRangeOfPlusMinus1(y_float_form)
    /\ heap_error' = (heap_error \/ ~InTurn(heap, {},
                          {"x_float_form", "h_float_form", "y_float_form"}, FreedAfterConvolve))
    /\ heap' = Release(heap, FreedAfterConvolve)
    /\ x_float_form' = IF "x_float_form" \in FreedAfterConvolve THEN <<>> ELSE x_float_form
    /\ h_float_form' = IF "h_float_form" \in FreedAfterConvolve THEN <<>> ELSE h_float_form
    /\ pc' = "scaled"
    /\ UNCHANGED <<sample_file, impulse_file, sample_pos, impulse_pos, header_sample,
                   header_impulse, header_output, eof_passes, N, M, P, x, h, y, n,
                   multiple, next10er, writes, output_file>>

(* ------------------------ quantizing and writing ----------------------- *)
\* lines 154-160
QuantizeOutput ==
    /\ pc = "scaled"
    /\ y' \in createShortIntegerSamplesFromFloatSamples(y_float_form)
    /\ heap_error' = (heap_error \/ ~InTurn(heap, {"y"}, {"y_float_form", "y"}, FreedAfterQuantize))
    /\ heap' = Release(Allocate(heap, {"y"}), FreedAfterQuantize)
    /\ pc' = "quantized"
    /\ UNCHANGED <<sample_file, impulse_file, sample_pos, impulse_pos, header_sample,
                   header_impulse, header_output, eof_passes, N, M, P, x, h,
                   x_float_form, h_float_form, y_float_form, n, multiple, next10er,
                   progress, writes, largest, output_file>>

\* the header with the overall length of the input left in it
OutputHeaderStaleLength(hdr, Pp) ==
    [hdr EXCEPT !.subchunk1_size = 16, !.subchunk2_size = Pp * 2]

\* the header writeOutputFile builds from the primary input's
OutputHeader(hdr, Pp) ==
    [hdr EXCEPT !.subchunk1_size = 16,
                !.subchunk2_size = Pp * 2,
                !.chunk_size = 36 + Pp * 2]

\* line 161, writeOutputFile: the header, then P samples.  With P < 0 the
\* count fwrite is given is (size_t)P: what it writes is undefined.
WriteOutputFile ==
    /\ pc = "quantized"
    /\ header_output' = OutputHeader(header_sample, P)
    /\ heap_error' = (heap_error \/ ~InTurn(heap, {}, {"y"}, {}))
    /\ IF P >= 0
       THEN /\ output_file' = <<OutputHeader(header_sample, P), y>>
            /\ pc' = "written"
       ELSE /\ output_file' = <<OutputHeader(header_sample, P)>>
            /\ pc' = "undefined"
    /\ UNCHANGED <<sample_file, impulse_file, sample_pos, impulse_pos, header_sample,
                   header_impulse, eof_passes, N, M, P, x, h, x_float_form,
                   h_float_form, y_float_form, y, heap, n, multiple, next10er,
                   progress, writes, largest>>

\* line 163 and closeFileStreams
ReleaseAndClose ==
    /\ pc = "written"
    /\ heap_error' = (heap_error \/ ~InTurn(heap, {}, {}, FreedAfterWrite))
    /\ heap' = Release(heap, FreedAfterWrite)
    /\ y_float_form' = IF "y_float_form" \in FreedAfterWrite THEN <<>> ELSE y_float_form
    /\ y' = IF "y" \in FreedAfterWrite THEN <<>> ELSE y
    /\ pc' = "done"
    /\ UNCHANGED <<sample_file, impulse_file, sample_pos, impulse_pos, header_sample,
                   header_impulse, header_output, eof_passes, N, M, P, x, h,
                   x_float_form, h_float_form, n, multiple, next10er, progress,
                   writes, largest, output_file>>

Next ==
    \/ ReadInputFileHeaders
    \/ ScanSample
    \/ ScanImpulse
    \/ GetDataSamplesFromInputFiles
    \/ ConvertToFloat
    \/ ConvolveBegin
    \/ ConvolveOuter
    \/ ConvolveEnd
    \/ QuantizeOutput
    \/ WriteOutputFile
    \/ ReleaseAndClose

Spec == Init /\ [][Next]_vars

(* ======================= properties of the program ===================== *)
\* the stages of createOutputFile that follow the scaling, with y_float_form live
AfterScaling == {"scaled", "quantized", "written"}

\* -1.0 <= a < 1.0, for a = num/den - sub * 0.000001
InUnitRange(a) ==
    /\ IsFinite(a)
    /\ IF a.sub = 0 THEN -a.den <= a.num /\ a.num < a.den
       ELSE /\ a.num + a.den >= (a.den + 999999) \div 1000000
            /\ a.num - a.den <= (a.den - 1) \div 1000000

RECURSIVE TrueMax(_)
\* the largest sample of a non-empty y
TrueMax(yv) ==
    IF Len(yv) = 1 THEN yv[1]
    ELSE LET rest == TrueMax(Tail(yv)) IN IF FGt(yv[1], rest) THEN yv[1] ELSE rest

RECURSIVE TrueMin(_)
\* the smallest sample of a non-empty y
TrueMin(yv) ==
    IF Len(yv) = 1 THEN yv[1]
    ELSE LET rest == TrueMin(Tail(yv)) IN IF FLt(yv[1], rest) THEN yv[1] ELSE rest

\* the scale the extremes of y call for
ExpectedScale(yv) ==
    IF FGt(TrueMax(yv), FAbs(TrueMin(yv)))
    THEN FAdd(TrueMax(yv), Epsilon)
    ELSE FAbs(TrueMin(yv))

\* C1: after the scaling at the end of convolve, every sample of a
\* non-empty result satisfies -1.0 <= y[p] < 1.0, and y[p] * 32768
\* truncates to a value a short holds.  (Stated for the runs whose divisor
\* is not zero; C3 is about the divisor.)
C1_ScaledSamplesInRange ==
    (pc \in AfterScaling /\ P >= 1 /\ largest.num # 0) =>
        \A p \in 1..P :
            /\ InUnitRange(y_float_form[p])
            /\ FitsShort(TruncScaled(y_float_form[p]))

\* C2: the divisor taken from largestSampleIn for a non-empty y is
\* max(y) + 0.000001 when max(y) > |min(y)|, and |min(y)| otherwise, for
\* the true extremes of all P samples.  (Stated for the results that are
\* not all zero.)
C2_ScaleFromTrueExtremes ==
    [][(pc = "convolving" /\ pc' = "scaled" /\ P >= 1
          /\ \E p \in 1..P : y_float_form[p] # FZero)
          => largest' = ExpectedScale(y_float_form)]_vars

\* C3: for a non-empty y the divisor of the scaling is strictly positive,
\* and every scaled sample is a finite number.
C3_DivisorPositive ==
    (pc \in AfterScaling /\ P >= 1) =>
        /\ largest.num > 0
        /\ \A p \in 1..P : IsFinite(y_float_form[p])

\* the offset of the first byte after the first "data" that follows the
\* extra bytes of the leading sub-block, or -1 when there is none followed
\* by a 4-byte length, or when fewer than four bytes of metadata precede it
TagEnd(file) ==
    LET junk == file.lead.subchunk1_size - 16
        t == IF junk <= Len(file.tail) THEN FindTag(file.tail, junk) ELSE -1
    IN  IF t >= 0 /\ t + 8 <= Len(file.tail) /\ (t = junk \/ t >= junk + 4)
        THEN t + 4 ELSE -1

\* the claim of C4 for one input file
LocatedAtFirstTag(file, hdr, pos) ==
    TagEnd(file) >= 0 =>
        /\ pc = "locating" =>
              /\ pos <= TagEnd(file)
              /\ hdr.subchunk2_id = DataTag => pos = TagEnd(file)
        /\ pc \in {"read", "floats", "convolving", "scaled", "quantized", "written", "done"} =>
              hdr.subchunk2_size = LE32(ReadBytes(file.tail, TagEnd(file), 4))

\* C4: in a file whose data chunk follows the extra bytes of the leading
\* sub-block and any metadata, the scan stops right after the first "data"
\* (it never reads past it), and subchunk2_size is the length that follows.
\* (Stated for metadata of no bytes or of at least four.)
C4_ScanStopsAfterFirstTag ==
    /\ LocatedAtFirstTag(sample_file, header_sample, sample_pos)
    /\ LocatedAtFirstTag(impulse_file, header_impulse, impulse_pos)

\* the file the scan is reading, and its header
ScannedFile == IF header_sample.subchunk2_id # DataTag THEN sample_file ELSE impulse_file
\* no "data" after the leading block, and at least four bytes where
\* the scan starts
NoTagAnywhere(file) ==
    /\ Len(file.tail) >= file.lead.subchunk1_size - 16 + 4
    /\ FindTag(file.tail, 0) = -1

\* C5: in a stream without "data" after the leading block the scan ends
\* with a failure once a read has hit end-of-stream (it is not still
\* looping), and the tag is never taken as found.
C5_ScanFailsAtEndOfStream ==
    /\ (NoTagAnywhere(sample_file) /\ pc # "start") =>
            header_sample.subchunk2_id # DataTag
    /\ (NoTagAnywhere(impulse_file) /\ pc # "start") =>
            header_impulse.subchunk2_id # DataTag
    /\ (NoTagAnywhere(ScannedFile) /\ eof_passes >= 1) => pc \notin {"locating"}

RECURSIVE ConvSum(_, _, _, _)
\* the sum of x[k] * h[p - k] over the k >= nn with 0 <= p - k < Len(hv)
ConvSum(xv, hv, p, nn) ==
    IF nn >= Len(xv) THEN FZero
    ELSE LET rest == ConvSum(xv, hv, p, nn + 1)
         IN  IF 0 <= p - nn /\ p - nn < Len(hv)
             THEN FAdd(FMul(xv[nn + 1], hv[p - nn + 1]), rest)
             ELSE rest

\* C6: when the loops of convolve have finished, before the scaling, y has
\* P = N + M - 1 entries, y[p] is the sum of x[n] * h[p-n] over the valid n,
\* and every index the loops wrote lies in 0..P-1.
C6_RawConvolution ==
    (pc = "convolving" /\ N >= 1 /\ M >= 1) =>
        /\ P = N + M - 1
        /\ Len(y_float_form) = P
        /\ writes \subseteq 0..(P - 1)
        /\ n >= N =>
              \A p \in 0..(P - 1) :
                  y_float_form[p + 1] = ConvSum(x_float_form, h_float_form, p, 0)

C6_Witness ==
    /\ pc = "convolving" /\ n = N /\ N = 2 /\ M = 2
    /\ writes = {0, 1, 2}
    /\ \A p \in 1..3 : y_float_form[p] # FZero

\* C7: with an empty impulse response and a non-empty primary signal the
\* run stops before anything is written to the output file.
C7_EmptyImpulseWritesNothing ==
    (pc \notin {"start", "locating"} /\ M = 0 /\ N >= 1) =>
        /\ output_file = <<>>
        /\ pc \notin {"written", "done"}

\* C8: the header writeOutputFile writes has subchunk2_size 2 * P,
\* chunk_size 36 + 2 * P and subchunk1_size 16, every other field as in
\* header_sample; header_sample and header_impulse are left as they were.
C8_OutputHeader ==
    [][(pc = "quantized" /\ pc' # "quantized") =>
          /\ output_file'[1] = header_output'
          /\ header_output'.subchunk2_size = 2 * P
          /\ header_output'.chunk_size = 36 + 2 * P
          /\ header_output'.subchunk1_size = 16
          /\ \A f \in {"num_channels", "sample_rate", "byte_rate", "block_align",
                       "bits_per_sample", "audio_format", "chunk_id", "format",
                       "subchunk1_id", "subchunk2_id"} :
                 header_output'[f] = header_sample[f]
          /\ header_sample' = header_sample
          /\ header_impulse' = header_impulse]_vars

C8_Witness ==
    /\ pc = "written" /\ P >= 2
    /\ header_sample.sample_rate # header_impulse.sample_rate
    /\ header_sample.chunk_size # header_output.chunk_size
    /\ output_file[1] = header_output

FromFloats == {"floats", "convolving", "scaled", "quantized", "written", "done"}
FromScaled == {"scaled", "quantized", "written", "done"}
FromQuantized == {"quantized", "written", "done"}

\* C9, as claimed: every buffer is allocated once, freed once, never used
\* when not allocated, and freed before the stage after its consumer
\* starts: x and h by the end of the conversion to float, the float inputs
\* by the end of convolve, y_float_form by the end of the quantization,
\* y by the end of the run.
C9_FreedRightAfterConsumer ==
    /\ ~heap_error
    /\ pc \in FromFloats => heap["x"] = "freed" /\ heap["h"] = "freed"
    /\ pc \in FromScaled =>
          heap["x_float_form"] = "freed" /\ heap["h_float_form"] = "freed"
    /\ pc \in FromQuantized => heap["y_float_form"] = "freed"
    /\ pc = "done" => heap["y"] = "freed"

\* C9, amended: as claimed for x, h, x_float_form, h_float_form and y;
\* y_float_form stays allocated while y is written and is freed with y
\* after writeOutputFile.
C9_FreedOnceInOrder ==
    /\ ~heap_error
    /\ pc \in FromFloats => heap["x"] = "freed" /\ heap["h"] = "freed"
    /\ pc \in FromScaled =>
          heap["x_float_form"] = "freed" /\ heap["h_float_form"] = "freed"
    /\ pc \in {"quantized", "written"} =>
          heap["y_float_form"] = "allocated" /\ heap["y"] = "allocated"
    /\ pc = "done" => \A b \in Buffers : heap[b] = "freed"

C9_Witness ==
    /\ pc = "done" /\ P >= 1
    /\ \A b \in Buffers : heap[b] = "freed"

\* C10: a progress message k (for k * 10%) that convolve prints inside its
\* loop is printed right after outer index floor(N * k / 10), and the
\* messages come in increasing order of k.
C10_ProgressTracksFraction ==
    /\ \A i \in 1..Len(progress) :
          progress[i][1] <= 9 => progress[i][2] = (N * progress[i][1]) \div 10
    /\ \A i \in 1..(Len(progress) - 1) : progress[i][1] < progress[i + 1][1]
====
